---------------------------- MODULE Spec2Model ----------------------------
(***************************************************************************)
(* Verification model of the ssm HMM package.                              *)
(*                                                                         *)
(*   Spec        HMM.fit / HMM.initialize and the EM driver they call      *)
(*   SpecFormat  utils.format_dataset on array shapes                      *)
(*   SpecFB      HMM.infer_posterior: forward-backward on one sequence     *)
(*   SpecAR      one EM iteration of AutoregressiveHMM on one sequence     *)
(*                                                                         *)
(* States are numbered 1..K here and 0..K-1 in the code.                   *)
(*                                                                         *)
(* Scores and tolerances are fixed-point integers: one unit is half of     *)
(* 1e-4, so the default tolerance 1e-4 is 2 units.                         *)
(*                                                                         *)
(* A log-domain number x is represented exactly by the rational exp(x):    *)
(* adding logs is multiplying, logsumexp is summing, -inf is 0, 0.0 is 1.  *)
(* Rounding is not modelled: identities are checked in exact arithmetic.   *)
(***************************************************************************)
EXTENDS Integers, Sequences, FiniteSets, TLC

VARIABLES
    \* ---- a call of fit / initialize (src/ssm/hmm/base.py) ----
    entry,          \* which method the caller invoked: "fit" or "initialize"
    argShape,       \* shape of the dataset argument as passed
    evShape,        \* model.emissions_shape
    method,         \* fit's `method` argument
    initMethod,     \* fit's `initialization_method` / initialize's `method`
    numIters,       \* fit's `num_iters`
    tol,            \* fit's `tol`
    pc,             \* control point of the call
    dataset,        \* shape of the dataset the wrapped body sees
    kwargs,         \* the kwargs fit hands to em
    params,         \* versions of the model's three distributions
    itr,            \* em: number of completed iterations
    score,          \* em: score of the current iteration's E-step
    posterior,      \* em: the posteriors of the last E-step
    consumed,       \* em: the posteriors the last M-step was given
    logProbs,       \* em: the trace of scores
    warned,         \* em: iterations (1-based) at which a warning was raised
    stopReason,     \* em: "converged" | "max_iter" | NoValue
    err,            \* the exception the call raised, or NoError
    \* ---- format_dataset on its own (src/ssm/utils.py) ----
    fArr,           \* arr.shape
    fShp,           \* the event shape it is checked against
    fOut,           \* outcome of the wrapper's shape check
    fOut2,          \* outcome of a nested wrapper on the same dataset
    fPc,
    \* ---- posterior inference for one sequence (HMM.infer_posterior) ----
    fbInitLogits,   \* logits of the initial distribution, K entries
    fbTransLogits,  \* logits of the transition distribution, K x K
    fbLik,          \* log-likelihoods, T x K
    fbAlpha,        \* forward messages computed so far (rows 1..t)
    fbBeta,         \* backward messages computed so far (rows T-k+1..T)
    fbPost,         \* the posterior, once computed
    fbScore,        \* marginal_likelihood of the sequence
    fbPc,
    \* ---- one EM iteration of the autoregressive HMM on one sequence ----
    arPrev,         \* prev_emissions: the rows standing for times before 0
    arLags,         \* num_lags
    arData,         \* the sequence: T observation vectors
    arInitLogits,   \* logits of the initial distribution
    arTransLogits,  \* logits of the transition distribution
    arEmis,         \* per-state emission parameters
    arX,            \* the lag window carried by the running scan
    arT,            \* number of steps the running scan has taken
    arLik,          \* rows of per-state log-likelihoods
    arPost,         \* the posterior of the sequence
    arScore,        \* marginal_likelihood of the sequence
    arStats,        \* per-state sufficient statistics
    arCounts,       \* per-state counts
    arPc,
    \* ---- one initialization or one M-step on a batch of sequences ----
    msEntry,        \* "fit_init" (fit's initialization) or "m_step"
    msInitMethod,   \* initialization_method
    msLags,         \* num_lags
    msData,         \* the dataset: B sequences of T observation vectors
    msEmis,         \* per-state emission parameters
    msInit,         \* probs of the initial distribution
    msTrans,        \* probs of the transition distribution, K x K
    msInitPrior,    \* concentration of the initial distribution's prior
    msTransPrior,   \* concentration of the transition prior, K x K
    msEmisVersion,  \* how often the emission distribution was replaced
    msPost,         \* the posteriors of the batch, in batch order
    msDone,         \* the sequences the emission M-step has summed in
    msStats,        \* emission statistics summed so far
    msCounts,       \* emission counts summed so far
    msPc,
    \* ---- one call of find_permutation (src/ssm/utils.py) ----
    pmZ1,           \* z1
    pmZ2,           \* z2
    pmK1,           \* the K1 argument: <<>> for None, <<k>> for a number
    pmK2,           \* the K2 argument
    pmOverlap,      \* the overlap matrix and its shape
    pmPerm,         \* perm
    pmPc            \* control point of the call

emVars == <<entry, argShape, evShape, method, initMethod, numIters, tol, pc,
            dataset, kwargs, params, itr, score, posterior, consumed,
            logProbs, warned, stopReason, err>>
fmtVars == <<fArr, fShp, fOut, fOut2, fPc>>
fbVars == <<fbInitLogits, fbTransLogits, fbLik, fbAlpha, fbBeta, fbPost,
            fbScore, fbPc>>
arVars == <<arPrev, arLags, arData, arInitLogits, arTransLogits, arEmis, arX, arT,
            arLik, arPost, arScore, arStats, arCounts, arPc>>
msVars == <<msEntry, msInitMethod, msLags, msData, msEmis, msInit, msTrans,
            msInitPrior, msTransPrior, msEmisVersion, msPost, msDone,
            msStats, msCounts, msPc>>
pmVars == <<pmZ1, pmZ2, pmK1, pmK2, pmOverlap, pmPerm, pmPc>>
vars == <<emVars, fmtVars, fbVars, arVars, msVars, pmVars>>
notEmVars == <<fmtVars, fbVars, arVars, msVars, pmVars>>
notFmtVars == <<emVars, fbVars, arVars, msVars, pmVars>>
notFbVars == <<emVars, fmtVars, arVars, msVars, pmVars>>
notArVars == <<emVars, fmtVars, fbVars, msVars, pmVars>>
notMsVars == <<emVars, fmtVars, fbVars, arVars, pmVars>>
notPmVars == <<emVars, fmtVars, fbVars, arVars, msVars>>

-----------------------------------------------------------------------------
(* Bounds of the model *)

MaxIters == 3
MaxScore == 3
MaxNdim == 4
MaxDimSize == 2
MaxStates == 2
MaxSteps == 3
MaxWeight == 2
MaxLags == 2

-----------------------------------------------------------------------------
(* Values *)

NoValue == "<none>"
PyNone == "None"
NoError == [type |-> NoValue, value |-> NoValue]
NoKwargs == [num_iters |-> 0, tol |-> 0]

\* outcome of the wrapper's shape check: the shape passed on, or a raise
Accepted(shape) == [ok |-> TRUE, shape |-> shape]
Rejected == [ok |-> FALSE, shape |-> <<>>]

Abs(x) == IF x < 0 THEN -x ELSE x

\* str.lower() on the method names the model enumerates
Lower(s) ==
    CASE s = "KMeans" -> "kmeans"
      [] s = "RANDOM" -> "random"
      [] OTHER -> s

FitMethods == {"em", "EM", "laplace_em"}
InitMethods == {PyNone, "random", "kmeans", "KMeans", "RANDOM", "spectral"}

-----------------------------------------------------------------------------
(* utils.format_dataset *)

\* Python's arr.shape[-ndim:] for ndim > 0: the whole tuple when it is shorter
Trailing(shape, ndim) ==
    IF ndim >= Len(shape) THEN shape
    ELSE SubSeq(shape, Len(shape) - ndim + 1, Len(shape))

EnsureBatchDimNoAssert(arrShape, shp) ==
    LET ndim == Len(shp) IN
    IF Len(arrShape) = ndim + 2 THEN Accepted(arrShape)
    ELSE IF Len(arrShape) = ndim + 1 THEN Accepted(<<1>> \o arrShape)
    ELSE Rejected

\* _ensure_batch_dim on shapes: the shape the wrapped function sees, or
\* Rejected when the assertion or the final raise fires
EnsureBatchDim(arrShape, shp) ==
    LET ndim == Len(shp) IN
    IF ndim > 0 /\ Trailing(arrShape, ndim) # shp THEN Rejected
    ELSE IF Len(arrShape) = ndim + 2 THEN Accepted(arrShape)
    ELSE IF Len(arrShape) = ndim + 1 THEN Accepted(<<1>> \o arrShape)
    ELSE Rejected

-----------------------------------------------------------------------------
(* HMM.fit and HMM.initialize *)

DefaultTol == 2

TolValues == {-1, DefaultTol, 2 * DefaultTol}

\* the dataset arguments a call is tried with: event shape (2,), and a
\* batched, an unbatched, a scalar and a wrong-event-shape array
CallShapes == {<<2, 3, 2>>, <<3, 2>>, <<2>>, <<3, 1>>}

InitialParams == [initial |-> 0, transition |-> 0, emission |-> 0]

NoPosterior == [params |-> InitialParams, iteration |-> 0]

FitKwargsDefaultTol(n, t) == [num_iters |-> n, tol |-> DefaultTol]

\* kwargs = dict(num_iters=num_iters, tol=tol, verbosity=verbosity)
FitKwargs(n, t) == [num_iters |-> n, tol |-> t]

AfterWrapperEmFirst(e, im) == IF e = "fit" THEN "dispatch" ELSE "initialize"

\* where the wrapped body starts: fit initializes unless the method is None
AfterWrapper(e, im) ==
    IF e = "fit" /\ im = PyNone THEN "dispatch" ELSE "initialize"

InitializeKnownLenient(m) == TRUE

\* the two branches of initialize that do not raise
InitializeKnown(m) == Lower(m) = "random" \/ Lower(m) = "kmeans"

InitializeError(m) == [type |-> "Exception", value |-> m]

FitMethodKnown(m) == m = "em"

FitMethodError(m) == [type |-> "ValueError", value |-> m]

DatasetError == [type |-> "Exception", value |-> "dataset"]

\* _m_step_emission_distribution replaces the emission distribution
MStepEmission(p) == [p EXCEPT !.emission = @ + 1]

\* m_step: initial, transition and emission distributions are replaced
MStepAll(p) ==
    [initial |-> p.initial + 1, transition |-> p.transition + 1,
     emission |-> p.emission + 1]

\* the format_dataset wrapper around fit and initialize
Wrapper ==
    /\ pc = "call"
    /\ LET d == EnsureBatchDim(argShape, evShape) IN
       IF ~d.ok
       THEN /\ pc' = "raised"
            /\ err' = DatasetError
            /\ UNCHANGED dataset
       ELSE /\ pc' = AfterWrapper(entry, initMethod)
            /\ dataset' = d.shape
            /\ UNCHANGED err
    /\ UNCHANGED <<entry, argShape, evShape, method, initMethod, numIters,
                   tol, kwargs, params, itr, score, posterior, consumed,
                   logProbs, warned, stopReason>>
    /\ UNCHANGED notEmVars

\* the body of initialize, called directly or from fit; called from fit it
\* is reached through its own format_dataset wrapper
Initialize ==
    /\ pc = "initialize"
    /\ LET d == IF entry = "fit" THEN EnsureBatchDim(dataset, evShape)
                ELSE Accepted(dataset)
       IN  IF ~d.ok
           THEN /\ pc' = "raised"
                /\ err' = DatasetError
                /\ UNCHANGED <<params, dataset>>
           ELSE IF InitializeKnown(initMethod)
           THEN /\ params' = MStepEmission(params)
                /\ pc' = IF entry = "fit" THEN "dispatch" ELSE "returned"
                /\ UNCHANGED <<err, dataset>>
           ELSE /\ pc' = "raised"
                /\ err' = InitializeError(initMethod)
                /\ UNCHANGED <<params, dataset>>
    /\ UNCHANGED <<entry, argShape, evShape, method, initMethod, numIters,
                   tol, kwargs, itr, score, posterior, consumed,
                   logProbs, warned, stopReason>>
    /\ UNCHANGED notEmVars

\* if method == "em": em(model, dataset, **kwargs) else: raise ValueError
Dispatch ==
    /\ pc = "dispatch"
    /\ IF FitMethodKnown(method)
       THEN /\ kwargs' = FitKwargs(numIters, tol)
            /\ pc' = "loop"
            /\ UNCHANGED err
       ELSE /\ pc' = "raised"
            /\ err' = FitMethodError(method)
            /\ UNCHANGED kwargs
    /\ UNCHANGED <<entry, argShape, evShape, method, initMethod, numIters,
                   tol, dataset, params, itr, score, posterior, consumed,
                   logProbs, warned, stopReason>>
    /\ UNCHANGED notEmVars

-----------------------------------------------------------------------------
(* The EM driver, ssm.inference.em: modelled from the specification's      *)
(* section 4.2, its code is not among the source files.                    *)

\* a decrease counts when it exceeds the floating-point tolerance 1e-4
FpTol == 2

\* |score[t] - score[t-1]| < tol
ToleranceFires(prev, cur, t) == Abs(cur - prev) < t

DecreasedNever(prev, cur) == FALSE

Decreased(prev, cur) == cur < prev - FpTol

\* for itr in range(num_iters)
EmLoop ==
    /\ pc = "loop"
    /\ IF itr < kwargs.num_iters
       THEN /\ pc' = "estep"
            /\ UNCHANGED stopReason
       ELSE /\ pc' = "returned"
            /\ stopReason' = "max_iter"
    /\ UNCHANGED <<entry, argShape, evShape, method, initMethod, numIters,
                   tol, dataset, kwargs, params, itr, score, posterior,
                   consumed, logProbs, warned, err>>
    /\ UNCHANGED notEmVars

\* E-step: posteriors of every sequence under the current parameters, and
\* the summed marginal log-likelihood as the score
EStep ==
    /\ pc = "estep"
    /\ \E s \in 0..MaxScore : score' = s
    /\ posterior' = [params |-> params, iteration |-> itr + 1]
    /\ pc' = "mstep"
    /\ UNCHANGED <<entry, argShape, evShape, method, initMethod, numIters,
                   tol, dataset, kwargs, params, itr, consumed, logProbs,
                   warned, stopReason, err>>
    /\ UNCHANGED notEmVars

\* M-step: the parameter update with the dataset and the posteriors
MStep ==
    /\ pc = "mstep"
    /\ consumed' = posterior
    /\ params' = MStepAll(params)
    /\ pc' = "check"
    /\ UNCHANGED <<entry, argShape, evShape, method, initMethod, numIters,
                   tol, dataset, kwargs, itr, score, posterior, logProbs,
                   warned, stopReason, err>>
    /\ UNCHANGED notEmVars

\* the score joins the trace; warning on a decrease; convergence check
EmCheck ==
    /\ pc = "check"
    /\ logProbs' = Append(logProbs, score)
    /\ itr' = itr + 1
    /\ LET n == Len(logProbs)
           hasPrev == n >= 1
       IN  /\ warned' = IF hasPrev /\ Decreased(logProbs[n], score)
                        THEN warned \cup {n + 1} ELSE warned
           /\ IF hasPrev /\ ToleranceFires(logProbs[n], score, kwargs.tol)
              THEN /\ pc' = "returned"
                   /\ stopReason' = "converged"
              ELSE /\ pc' = "loop"
                   /\ UNCHANGED stopReason
    /\ UNCHANGED <<entry, argShape, evShape, method, initMethod, numIters,
                   tol, dataset, kwargs, params, score, posterior, consumed,
                   err>>
    /\ UNCHANGED notEmVars

-----------------------------------------------------------------------------
(* format_dataset around a function body, and around its own result *)

Shapes(n) == UNION {[1..k -> 1..MaxDimSize] : k \in 0..n}

\* wrapper(*args): the body f runs only with the normalised dataset
FormatCall ==
    /\ fPc = "start"
    /\ fOut' = EnsureBatchDim(fArr, fShp)
    /\ fPc' = IF fOut'.ok THEN "body" ELSE "raised"
    /\ UNCHANGED <<fArr, fShp, fOut2>>
    /\ UNCHANGED notFmtVars

\* the body hands its dataset to another wrapped function (fit -> initialize)
FormatAgain ==
    /\ fPc = "body"
    /\ fOut2' = EnsureBatchDim(fOut.shape, fShp)
    /\ fPc' = IF fOut2'.ok THEN "inner" ELSE "raised"
    /\ UNCHANGED <<fArr, fShp, fOut>>
    /\ UNCHANGED notFmtVars

-----------------------------------------------------------------------------
(* Exact arithmetic on the non-negative rationals <<numerator, denominator>> *)

RECURSIVE GCD(_, _)
GCD(a, b) == IF b = 0 THEN a ELSE GCD(b, a % b)

\* the result of an undefined operation such as (-inf) - (-inf)
NaN == <<0, 0>>

IsNaN(a) == a[2] = 0

Rat(n, d) ==
    IF d = 0 THEN NaN
    ELSE LET g == GCD(n, d) IN <<n \div g, d \div g>>

RInt(n) == <<n, 1>>

RAdd(a, b) ==
    IF IsNaN(a) \/ IsNaN(b) THEN NaN
    ELSE Rat(a[1] * b[2] + b[1] * a[2], a[2] * b[2])

RMul(a, b) ==
    IF IsNaN(a) \/ IsNaN(b) THEN NaN
    ELSE Rat(a[1] * b[1], a[2] * b[2])

RDiv(a, b) ==
    IF IsNaN(a) \/ IsNaN(b) \/ b[1] = 0 THEN NaN
    ELSE Rat(a[1] * b[2], a[2] * b[1])

\* f[1] + ... + f[n]
RECURSIVE RSumTo(_, _)
RSumTo(f, n) == IF n = 0 THEN RInt(0) ELSE RAdd(RSumTo(f, n - 1), f[n])

\* the sum of the entries of vector f
RSum(f) == RSumTo(f, Cardinality(DOMAIN f))

-----------------------------------------------------------------------------
(* HMM.infer_posterior and the forward-backward engine.  The engine        *)
(* (StationaryDiscreteChain) is not among the source files and is          *)
(* modelled from the specification's section 4.1.                          *)

\* lp -= logsumexp(lp, axis=-1, keepdims=True)
LogNormalize(w) ==
    LET z == RSum([i \in DOMAIN w |-> RInt(w[i])])
    IN  [i \in DOMAIN w |-> RDiv(RInt(w[i]), z)]

LogInitialStateProbabilities(logits) == LogNormalize(logits)

\* log_transition_matrix -= logsumexp(log_transition_matrix, axis=1)
LogTransitionProbabilities(logits) ==
    [i \in DOMAIN logits |-> LogNormalize(logits[i])]

\* alpha[0] = log_init + log_likelihoods[0]
AlphaFirst(logInit, likRow) ==
    [j \in DOMAIN logInit |-> RMul(logInit[j], likRow[j])]

\* alpha[t,j] = log_likelihoods[t,j]
\*              + logsumexp_i(alpha[t-1,i] + log_trans[i,j])
AlphaNext(prev, likRow, logTrans) ==
    [j \in DOMAIN prev |->
        RMul(likRow[j],
             RSum([i \in DOMAIN prev |-> RMul(prev[i], logTrans[i][j])]))]

\* beta[T-1] = 0
BetaLast(K) == [i \in 1..K |-> RInt(1)]

BetaPrevSameStepLikelihood(next, likNext, logTrans) ==
    [i \in DOMAIN next |->
        RSum([j \in DOMAIN next |-> RMul(logTrans[i][j], next[j])])]

\* beta[t,i] = logsumexp_j(log_trans[i,j] + log_likelihoods[t+1,j]
\*                         + beta[t+1,j])
BetaPrev(next, likNext, logTrans) ==
    [i \in DOMAIN next |->
        RSum([j \in DOMAIN next |->
                RMul(logTrans[i][j], RMul(likNext[j], next[j]))])]

\* logZ = logsumexp_i(alpha[T-1,i])
LogNormalizer(alpha) == RSum(alpha[Len(alpha)])

\* log_gamma[t,i] = alpha[t,i] + beta[t,i] - logZ
LogGamma(alpha, beta, logZ) ==
    [t \in 1..Len(alpha) |->
        [i \in DOMAIN alpha[t] |-> RDiv(RMul(alpha[t][i], beta[t][i]), logZ)]]

LogXiNoLikelihood(alpha, beta, lik, logTrans, logZ) ==
    [t \in 1..(Len(alpha) - 1) |->
        [i \in DOMAIN alpha[t] |->
            [j \in DOMAIN alpha[t] |->
                RDiv(RMul(alpha[t][i],
                          RMul(logTrans[i][j], beta[t + 1][j])),
                     logZ)]]]

\* log_xi[t,i,j] = alpha[t,i] + log_trans[i,j] + log_likelihoods[t+1,j]
\*                 + beta[t+1,j] - logZ, for t = 0..T-2
LogXi(alpha, beta, lik, logTrans, logZ) ==
    [t \in 1..(Len(alpha) - 1) |->
        [i \in DOMAIN alpha[t] |->
            [j \in DOMAIN alpha[t] |->
                RDiv(RMul(alpha[t][i],
                          RMul(logTrans[i][j],
                               RMul(lik[t + 1][j], beta[t + 1][j]))),
                     logZ)]]]

\* the whole forward pass: rows alpha[1..n]
RECURSIVE ForwardPass(_, _, _, _)
ForwardPass(logInit, lik, logTrans, n) ==
    IF n = 1 THEN <<AlphaFirst(logInit, lik[1])>>
    ELSE LET a == ForwardPass(logInit, lik, logTrans, n - 1)
         IN  Append(a, AlphaNext(a[n - 1], lik[n], logTrans))

fbT == Len(fbLik)
fbK == Cardinality(DOMAIN fbInitLogits)
fbLogInit == LogInitialStateProbabilities(fbInitLogits)
fbLogTrans == LogTransitionProbabilities(fbTransLogits)

\* one step of the forward recursion, left to right
FbForward ==
    /\ fbPc = "forward"
    /\ fbAlpha' =
          IF fbAlpha = <<>>
          THEN <<AlphaFirst(fbLogInit, fbLik[1])>>
          ELSE Append(fbAlpha,
                      AlphaNext(fbAlpha[Len(fbAlpha)],
                                fbLik[Len(fbAlpha) + 1], fbLogTrans))
    /\ fbPc' = IF Len(fbAlpha') = fbT THEN "backward" ELSE "forward"
    /\ UNCHANGED <<fbInitLogits, fbTransLogits, fbLik, fbBeta, fbPost,
                   fbScore>>
    /\ UNCHANGED notFbVars

\* one step of the backward recursion, right to left; fbBeta holds the
\* rows of times T-Len(fbBeta)+1 .. T
FbBackward ==
    /\ fbPc = "backward"
    /\ fbBeta' =
          IF fbBeta = <<>>
          THEN <<BetaLast(fbK)>>
          ELSE <<BetaPrev(fbBeta[1], fbLik[fbT - Len(fbBeta) + 1],
                          fbLogTrans)>> \o fbBeta
    /\ fbPc' = IF Len(fbBeta') = fbT THEN "marginals" ELSE "backward"
    /\ UNCHANGED <<fbInitLogits, fbTransLogits, fbLik, fbAlpha, fbPost,
                   fbScore>>
    /\ UNCHANGED notFbVars

\* normalizer, state marginals and pairwise marginals
FbMarginals ==
    /\ fbPc = "marginals"
    /\ LET logZ == LogNormalizer(fbAlpha) IN
       fbPost' = [logZ |-> logZ,
                  gamma |-> LogGamma(fbAlpha, fbBeta, logZ),
                  xi |-> LogXi(fbAlpha, fbBeta, fbLik, fbLogTrans, logZ)]
    /\ fbPc' = "done"
    /\ UNCHANGED <<fbInitLogits, fbTransLogits, fbLik, fbAlpha, fbBeta,
                   fbScore>>
    /\ UNCHANGED notFbVars

NoPost == [logZ |-> NaN, gamma |-> <<>>, xi |-> <<>>]

-----------------------------------------------------------------------------
(* Autoregressive HMM: lag windows, likelihoods, joint probability *)

Min(a, b) == IF a < b THEN a ELSE b

\* data[:n] and data[n:]
Take(data, n) == SubSeq(data, 1, Min(n, Len(data)))
Drop(data, n) == SubSeq(data, Min(n, Len(data)) + 1, Len(data))

\* np.zeros((num_lags, dim))
ZeroWindow(lags, dim) == [l \in 1..lags |-> [d \in 1..dim |-> 0]]

RowStackNewestFirst(x, y) == <<y>> \o SubSeq(x, 1, Len(x) - 1)

\* np.row_stack([x[1:], y])
RowStack(x, y) == Tail(x) \o <<y>>

\* x.ravel(): the rows of the window one after the other
RECURSIVE Ravel(_)
Ravel(x) == IF x = <<>> THEN <<>> ELSE x[1] \o Ravel(Tail(x))

RECURSIVE Pow2(_)
Pow2(n) == IF n = 0 THEN 1 ELSE 2 * Pow2(n - 1)

RECURSIVE IntSumTo(_, _)
IntSumTo(f, n) == IF n = 0 THEN 0 ELSE IntSumTo(f, n - 1) + f[n]

\* The density of observation y under one state's regression on the
\* flattened window: a stand-in for GaussianLinearRegression.log_prob with
\* mean bias + coef * (sum of the window's rows), which halves with every
\* unit of absolute residual.
EmissionLogProb(theta, y, covariates) ==
    LET dim == Len(y)
        lags == Len(covariates) \div dim
        mean == [d \in 1..dim |->
                    theta.bias + theta.coef *
                      IntSumTo([l \in 1..lags |-> covariates[(l - 1) * dim + d]],
                               lags)]
        residual == IntSumTo([d \in 1..dim |-> Abs(y[d] - mean[d])], dim)
    IN  Rat(1, Pow2(residual))

\* _compute_ll: the K log-likelihoods of y given window x
ComputeLL(emis, x, y) ==
    [k \in DOMAIN emis |-> EmissionLogProb(emis[k], y, Ravel(x))]

\* log_likelihoods.at[:num_lags].set(0.0)
SetPrefixZero(rows, lags) ==
    [t \in 1..Len(rows) |->
        IF t <= lags THEN [k \in DOMAIN rows[t] |-> RInt(1)] ELSE rows[t]]

\* the scan of log_probability over (states[1:], data[1:]); the carry is
\* (prev_state, prev_emissions, lp)
RECURSIVE LogProbabilityScan(_, _, _, _, _, _)
LogProbabilityScan(carry, states, data, t, logTrans, emis) ==
    IF t > Len(data) THEN carry
    ELSE LET lp1 == RMul(carry.lp, logTrans[carry.state][states[t]])
             lp2 == RMul(lp1, EmissionLogProb(emis[states[t]], data[t],
                                              Ravel(carry.x)))
         IN  LogProbabilityScan(
                 [state |-> states[t], x |-> RowStack(carry.x, data[t]),
                  lp |-> lp2],
                 states, data, t + 1, logTrans, emis)

\* AutoregressiveHMM.log_probability(states, data, prev_emissions): the
\* final carry of its scan
LogProbabilityCarry(states, data, prev, logInit, logTrans, emis) ==
    LET lp0 == RMul(logInit[states[1]],
                    EmissionLogProb(emis[states[1]], data[1], Ravel(prev)))
        carry0 == [state |-> states[1], x |-> RowStack(prev, data[1]),
                   lp |-> lp0]
    IN  LogProbabilityScan(carry0, states, data, 2, logTrans, emis)

\* AutoregressiveHMM.log_probability(states, data) with prev_emissions=None
LogProbability(states, data, lags, logInit, logTrans, emis) ==
    LogProbabilityCarry(states, data, ZeroWindow(lags, Len(data[1])),
                        logInit, logTrans, emis).lp

\* the whole backward pass: rows beta[n..T]
RECURSIVE BackwardPass(_, _, _, _)
BackwardPass(lik, logTrans, K, n) ==
    IF n = Len(lik) THEN <<BetaLast(K)>>
    ELSE LET b == BackwardPass(lik, logTrans, K, n + 1)
         IN  <<BetaPrev(b[1], lik[n + 1], logTrans)>> \o b

\* infer_posterior: StationaryDiscreteChain(log_init, log_likelihoods,
\* log_trans)
InferPosterior(logInit, lik, logTrans) ==
    LET alpha == ForwardPass(logInit, lik, logTrans, Len(lik))
        beta == BackwardPass(lik, logTrans, Cardinality(DOMAIN logInit), 1)
        logZ == LogNormalizer(alpha)
    IN  [logInit |-> logInit, lik |-> lik, logTrans |-> logTrans,
         logZ |-> logZ, expected_states |-> LogGamma(alpha, beta, logZ)]

\* the unnormalised log-probability a chain gives a state sequence
RECURSIVE ChainScore(_, _, _)
ChainScore(post, states, t) ==
    IF t = 1 THEN RMul(post.logInit[states[1]], post.lik[1][states[1]])
    ELSE RMul(ChainScore(post, states, t - 1),
              RMul(post.logTrans[states[t - 1]][states[t]],
                   post.lik[t][states[t]]))

\* posterior.log_prob(states)
PosteriorLogProb(post, states) ==
    RDiv(ChainScore(post, states, Len(states)), post.logZ)

\* np.zeros(data.shape[0], dtype=int): state 0 of the code at every step
DummyStates(data) == [t \in 1..Len(data) |-> 1]

\* marginal_likelihood
MarginalLikelihood(data, post, lags, logInit, logTrans, emis) ==
    RDiv(LogProbability(DummyStates(data), data, lags, logInit, logTrans,
                        emis),
         PosteriorLogProb(post, DummyStates(data)))

\* log p(x, y) = log p(x_1) + sum_t log p(x_{t+1} | x_t)
\*               + sum_t log p(y_t | x_t), the likelihoods given as a table
HmmLogProbability(states, logInit, lik, logTrans) ==
    ChainScore([logInit |-> logInit, lik |-> lik, logTrans |-> logTrans],
               states, Len(states))

\* marginal_likelihood of a model whose emissions do not depend on the
\* past: log_probability(dummy_states, data) - posterior.log_prob(
\* dummy_states)
HmmMarginalLikelihood(logInit, lik, logTrans, logZ) ==
    LET dummy == DummyStates(lik)
        post == [logInit |-> logInit, lik |-> lik, logTrans |-> logTrans,
                 logZ |-> logZ]
    IN  RDiv(HmmLogProbability(dummy, logInit, lik, logTrans),
             PosteriorLogProb(post, dummy))

\* marginal_likelihood(data, posterior) after infer_posterior
FbMarginalLikelihood ==
    /\ fbPc = "done"
    /\ fbScore' = HmmMarginalLikelihood(fbLogInit, fbLik, fbLogTrans,
                                        fbPost.logZ)
    /\ fbPc' = "scored"
    /\ UNCHANGED <<fbInitLogits, fbTransLogits, fbLik, fbAlpha, fbBeta,
                   fbPost>>
    /\ UNCHANGED notFbVars

-----------------------------------------------------------------------------
(* AutoregressiveEmissions.m_step: the statistics of one time series *)

Outer(a, b) == [i \in DOMAIN a |-> [j \in DOMAIN b |-> a[i] * b[j]]]

\* (covariates, data, covariates covariates^T, data covariates^T,
\* data data^T), in the order and shapes of init_stats
GaussianLinregSuffStats(y, covariates) ==
    [x |-> covariates, y |-> y, xx |-> Outer(covariates, covariates),
     yx |-> Outer(y, covariates), yy |-> Outer(y, y)]

ZeroVec(n) == [i \in 1..n |-> RInt(0)]
ZeroMat(n, m) == [i \in 1..n |-> [j \in 1..m |-> RInt(0)]]

\* init_stats for one state
InitStats(lags, dim) ==
    [x |-> ZeroVec(lags * dim), y |-> ZeroVec(dim),
     xx |-> ZeroMat(lags * dim, lags * dim),
     yx |-> ZeroMat(dim, lags * dim), yy |-> ZeroMat(dim, dim)]

VecAddScaled(acc, w, v) ==
    [i \in DOMAIN acc |-> RAdd(acc[i], RMul(w, RInt(v[i])))]

MatAddScaled(acc, w, m) ==
    [i \in DOMAIN acc |-> VecAddScaled(acc[i], w, m[i])]

\* stats + w * s for one state
AddWeighted(stats, w, s) ==
    [x |-> VecAddScaled(stats.x, w, s.x),
     y |-> VecAddScaled(stats.y, w, s.y),
     xx |-> MatAddScaled(stats.xx, w, s.xx),
     yx |-> MatAddScaled(stats.yx, w, s.yx),
     yy |-> MatAddScaled(stats.yy, w, s.yy)]

\* a variant that pairs each observation with the window already holding it
CollectStatsNewWindow(carry, y, w) ==
    [x |-> RowStack(carry.x, y),
     stats |-> [k \in DOMAIN w |->
                  AddWeighted(carry.stats[k], w[k],
                              GaussianLinregSuffStats(
                                  y, Ravel(RowStack(carry.x, y))))],
     counts |-> [k \in DOMAIN w |-> RAdd(carry.counts[k], w[k])]]

\* _collect_stats(carry, (y, w))
CollectStats(carry, y, w) ==
    [x |-> RowStack(carry.x, y),
     stats |-> [k \in DOMAIN w |->
                  AddWeighted(carry.stats[k], w[k],
                              GaussianLinregSuffStats(y, Ravel(carry.x)))],
     counts |-> [k \in DOMAIN w |-> RAdd(carry.counts[k], w[k])]]

\* what scan_one scans over: data[num_lags:] (and weights[num_lags:])
ScanInputs(data, lags) == Drop(data, lags)

\* the window scan_one starts from: data[:num_lags]
ScanWindow(data, lags) == Take(data, lags)

arK == Cardinality(DOMAIN arEmis)
arLen == Len(arData)
arDim == Len(arData[1])
arLogInit == LogInitialStateProbabilities(arInitLogits)
arLogTrans == LogTransitionProbabilities(arTransLogits)

\* one step of the scan in _log_likelihoods, starting from a zero window
ArLikStep ==
    /\ arPc = "lik"
    /\ arT < arLen
    /\ arLik' = Append(arLik, ComputeLL(arEmis, arX, arData[arT + 1]))
    /\ arX' = RowStack(arX, arData[arT + 1])
    /\ arT' = arT + 1
    /\ UNCHANGED <<arPrev, arLags, arData, arInitLogits, arTransLogits, arEmis,
                   arPost, arScore, arStats, arCounts, arPc>>
    /\ UNCHANGED notArVars

\* the rows without a full lag history are set to 0.0, and the posterior
\* of the sequence is inferred from the result
ArInferPosterior ==
    /\ arPc = "lik"
    /\ arT = arLen
    /\ arLik' = SetPrefixZero(arLik, arLags)
    /\ arPost' = InferPosterior(arLogInit, arLik', arLogTrans)
    /\ arPc' = "score"
    /\ UNCHANGED <<arPrev, arLags, arData, arInitLogits, arTransLogits, arEmis, arX,
                   arT, arScore, arStats, arCounts>>
    /\ UNCHANGED notArVars

\* the score of the E-step: marginal_likelihood(data, posterior)
ArMarginalLikelihood ==
    /\ arPc = "score"
    /\ arScore' = MarginalLikelihood(arData, arPost, arLags, arLogInit,
                                     arLogTrans, arEmis)
    /\ arPc' = "mstep"
    /\ UNCHANGED <<arPrev, arLags, arData, arInitLogits, arTransLogits, arEmis, arX,
                   arT, arLik, arPost, arStats, arCounts>>
    /\ UNCHANGED notArVars

\* scan_one starts: carry (data[:num_lags], init_stats, init_counts)
ArScanStart ==
    /\ arPc = "mstep"
    /\ arX' = ScanWindow(arData, arLags)
    /\ arT' = 0
    /\ arStats' = [k \in 1..arK |-> InitStats(arLags, arDim)]
    /\ arCounts' = [k \in 1..arK |-> RInt(0)]
    /\ arPc' = "scan"
    /\ UNCHANGED <<arPrev, arLags, arData, arInitLogits, arTransLogits, arEmis,
                   arLik, arPost, arScore>>
    /\ UNCHANGED notArVars

\* one step of scan_one over (data[num_lags:], weights[num_lags:])
ArCollect ==
    /\ arPc = "scan"
    /\ arT < Len(ScanInputs(arData, arLags))
    /\ LET y == ScanInputs(arData, arLags)[arT + 1]
           w == ScanInputs(arPost.expected_states, arLags)[arT + 1]
           c == CollectStats([x |-> arX, stats |-> arStats,
                              counts |-> arCounts], y, w)
       IN  /\ arX' = c.x
           /\ arStats' = c.stats
           /\ arCounts' = c.counts
    /\ arT' = arT + 1
    /\ UNCHANGED <<arPrev, arLags, arData, arInitLogits, arTransLogits, arEmis,
                   arLik, arPost, arScore, arPc>>
    /\ UNCHANGED notArVars

\* the scan is over: the statistics and counts of the batch are summed
\* (one sequence) and the emission distribution is replaced by their mode
ArScanEnd ==
    /\ arPc = "scan"
    /\ arT = Len(ScanInputs(arData, arLags))
    /\ arPc' = "done"
    /\ UNCHANGED <<arPrev, arLags, arData, arInitLogits, arTransLogits, arEmis, arX,
                   arT, arLik, arPost, arScore, arStats, arCounts>>
    /\ UNCHANGED notArVars

NoArPost == [logInit |-> <<>>, lik |-> <<>>, logTrans |-> <<>>,
             logZ |-> NaN, expected_states |-> <<>>]

-----------------------------------------------------------------------------
(* One initialization or one M-step of a model on a batch of sequences:    *)
(* HMM.initialize, HMM.m_step and AutoregressiveEmissions.m_step.  The     *)
(* Dirichlet mode (tensorflow_probability) and the container of the        *)
(* posteriors are not among the source files.                              *)

\* a - b and a / b on rationals of either sign
RSub(a, b) ==
    IF IsNaN(a) \/ IsNaN(b) THEN NaN
    ELSE Rat(a[1] * b[2] - b[1] * a[2], a[2] * b[2])

RQuot(a, b) ==
    IF IsNaN(a) \/ IsNaN(b) \/ b[1] = 0 THEN NaN
    ELSE IF b[1] < 0 THEN Rat(-(a[1] * b[2]), a[2] * (-b[1]))
    ELSE Rat(a[1] * b[2], a[2] * b[1])

RLeq(a, b) == ~IsNaN(a) /\ ~IsNaN(b) /\ a[1] * b[2] <= b[1] * a[2]

\* a probability vector: entries in [0, 1] that sum to 1
IsProbabilityVector(p) ==
    /\ \A i \in DOMAIN p : RLeq(RInt(0), p[i]) /\ RLeq(p[i], RInt(1))
    /\ RSum(p) = RInt(1)

\* 1.1 * np.ones(num_states): the concentration of the default priors
DefaultConcentration == <<11, 10>>

\* the concentrations a caller may give a Dirichlet prior (any positive
\* number), the default among them
Concentrations == {<<1, 2>>, DefaultConcentration, <<2, 1>>}

\* Dirichlet(concentration).mode(): (c_i - 1) / (sum(c) - K)
DirichletMode(c) ==
    LET K == Cardinality(DOMAIN c)
        total == RSum(c)
    IN  [i \in DOMAIN c |->
            RQuot(RSub(c[i], RInt(1)), RSub(total, RInt(K)))]

\* the scan of _log_likelihoods over the whole sequence
RECURSIVE LogLikelihoodsScan(_, _, _, _)
LogLikelihoodsScan(x, data, t, emis) ==
    IF t > Len(data) THEN <<>>
    ELSE <<ComputeLL(emis, x, data[t])>>
         \o LogLikelihoodsScan(RowStack(x, data[t]), data, t + 1, emis)

\* AutoregressiveHMM._log_likelihoods(data)
LogLikelihoods(data, lags, emis) ==
    SetPrefixZero(
        LogLikelihoodsScan(ZeroWindow(lags, Len(data[1])), data, 1, emis),
        lags)

RECURSIVE SumSlicesFromIdentity(_, _, _)
SumSlicesFromIdentity(xi, n, K) ==
    IF n = 0
    THEN [i \in 1..K |-> [j \in 1..K |-> IF i = j THEN RInt(1) ELSE RInt(0)]]
    ELSE LET s == SumSlicesFromIdentity(xi, n - 1, K)
         IN  [i \in 1..K |-> [j \in 1..K |-> RAdd(s[i][j], xi[n][i][j])]]

\* the sum over t of exp(log_xi[t]), a K x K matrix (all zeros for T = 1)
RECURSIVE SumSlices(_, _, _)
SumSlices(xi, n, K) ==
    IF n = 0 THEN [i \in 1..K |-> [j \in 1..K |-> RInt(0)]]
    ELSE LET s == SumSlices(xi, n - 1, K)
         IN  [i \in 1..K |-> [j \in 1..K |-> RAdd(s[i][j], xi[n][i][j])]]

\* the posterior of one sequence: expected states (T x K), expected
\* transitions summed over time (K x K), and the log normalizer
SequencePosterior(logInit, lik, logTrans) ==
    LET K == Cardinality(DOMAIN logInit)
        alpha == ForwardPass(logInit, lik, logTrans, Len(lik))
        beta == BackwardPass(lik, logTrans, K, 1)
        logZ == LogNormalizer(alpha)
        xi == LogXi(alpha, beta, lik, logTrans, logZ)
    IN  [expected_states |-> LogGamma(alpha, beta, logZ),
         expected_transitions |-> SumSlices(xi, Len(xi), K),
         logZ |-> logZ]

OneHotUniform(z, K) == [n \in DOMAIN z |-> [k \in 1..K |-> <<1, K>>]]

\* one_hot(z, K): row n has a 1 in column z[n] and 0 elsewhere
OneHot(z, K) ==
    [n \in DOMAIN z |-> [k \in 1..K |-> IF k = z[n] THEN RInt(1) ELSE RInt(0)]]

\* HMMPosterior(None, Ez, None)
DummyPosterior(Ez) ==
    [expected_states |-> Ez, expected_transitions |-> <<>>, logZ |-> NaN]

RVecAdd(a, b) == [i \in DOMAIN a |-> RAdd(a[i], b[i])]

RMatAdd(a, b) == [i \in DOMAIN a |-> RVecAdd(a[i], b[i])]

\* np.sum(posteriors.expected_states[:, 0, :], axis=0) over sequences 1..n
RECURSIVE SumInitialStates(_, _, _)
SumInitialStates(posts, n, K) ==
    IF n = 0 THEN [k \in 1..K |-> RInt(0)]
    ELSE RVecAdd(SumInitialStates(posts, n - 1, K),
                 posts[n].expected_states[1])

\* np.sum(posteriors.expected_transitions, axis=0) over sequences 1..n
RECURSIVE SumTransitions(_, _, _)
SumTransitions(posts, n, K) ==
    IF n = 0 THEN [i \in 1..K |-> [j \in 1..K |-> RInt(0)]]
    ELSE RMatAdd(SumTransitions(posts, n - 1, K),
                 posts[n].expected_transitions)

MStepInitialNoPrior(posts, prior) ==
    DirichletMode(SumInitialStates(posts, Len(posts), Len(prior)))

\* _m_step_initial_distribution: the probs of the new Categorical
MStepInitial(posts, prior) ==
    LET stats == RVecAdd(SumInitialStates(posts, Len(posts), Len(prior)),
                         prior)
    IN  DirichletMode(stats)

MStepTransitionNoPrior(posts, prior) ==
    LET stats == SumTransitions(posts, Len(posts), Len(prior))
    IN  [i \in DOMAIN stats |-> DirichletMode(stats[i])]

\* _m_step_transition_distribution: the probs of the new Categorical
MStepTransition(posts, prior) ==
    LET stats == RMatAdd(SumTransitions(posts, Len(posts), Len(prior)),
                         prior)
    IN  [i \in DOMAIN stats |-> DirichletMode(stats[i])]

\* the steps t+1.. of lax.scan(_collect_stats, carry, (ys, ws))
RECURSIVE ScanFrom(_, _, _, _)
ScanFrom(carry, ys, ws, t) ==
    IF t > Len(ys) THEN carry
    ELSE ScanFrom(CollectStats(carry, ys[t], ws[t]), ys, ws, t + 1)

\* scan_one(data, weights): the statistics and counts of one time series,
\* from zero statistics and the window data[:num_lags]
ScanOne(data, weights, lags, K) ==
    LET dim == Len(data[1])
        carry == ScanFrom([x |-> ScanWindow(data, lags),
                           stats |-> [k \in 1..K |-> InitStats(lags, dim)],
                           counts |-> [k \in 1..K |-> RInt(0)]],
                          ScanInputs(data, lags), ScanInputs(weights, lags),
                          1)
    IN  [stats |-> carry.stats, counts |-> carry.counts]

\* the sum of two sequences' statistics and counts (np.sum over axis 0)
StatsAdd(a, b) ==
    [stats |-> [k \in DOMAIN a.stats |->
                  [x |-> RVecAdd(a.stats[k].x, b.stats[k].x),
                   y |-> RVecAdd(a.stats[k].y, b.stats[k].y),
                   xx |-> RMatAdd(a.stats[k].xx, b.stats[k].xx),
                   yx |-> RMatAdd(a.stats[k].yx, b.stats[k].yx),
                   yy |-> RMatAdd(a.stats[k].yy, b.stats[k].yy)]],
     counts |-> RVecAdd(a.counts, b.counts)]

BatchWeightsOfFirst(posts, b) == posts[1].expected_states

\* vmap(scan_one)(dataset, posteriors.expected_states): sequence b is
\* scanned with the expected states of sequence b
BatchWeights(posts, b) == posts[b].expected_states

msK == Cardinality(DOMAIN msEmis)
msB == Len(msData)
msT == Len(msData[1])

\* fit's initialization: nothing when initialization_method is None;
\* otherwise initialize draws hard assignments (jr.choice or k-means
\* labels), makes them one-hot, and hands the dummy posteriors to the
\* emission M-step
MsInitialize ==
    /\ msPc = "start" /\ msEntry = "fit_init"
    /\ IF msInitMethod = PyNone
       THEN /\ msPc' = "done"
            /\ UNCHANGED msPost
       ELSE /\ \E assignments \in [1..msB -> [1..msT -> 1..msK]] :
                 msPost' = [b \in 1..msB |->
                              DummyPosterior(OneHot(assignments[b], msK))]
            /\ msPc' = "emission"
    /\ UNCHANGED <<msEntry, msInitMethod, msLags, msData, msEmis, msInit,
                   msTrans, msInitPrior, msTransPrior, msEmisVersion, msDone,
                   msStats, msCounts>>
    /\ UNCHANGED notMsVars

\* the E-step before an M-step: one posterior per sequence, each from its
\* own sequence and the current parameters, stacked in batch order
MsEStep ==
    /\ msPc = "start" /\ msEntry = "m_step"
    /\ msPost' = [b \in 1..msB |->
                    SequencePosterior(
                        msInit, LogLikelihoods(msData[b], msLags, msEmis),
                        msTrans)]
    /\ msPc' = "initial"
    /\ UNCHANGED <<msEntry, msInitMethod, msLags, msData, msEmis, msInit,
                   msTrans, msInitPrior, msTransPrior, msEmisVersion, msDone,
                   msStats, msCounts>>
    /\ UNCHANGED notMsVars

\* m_step, first line: _m_step_initial_distribution(posteriors)
MsInitial ==
    /\ msPc = "initial"
    /\ msInit' = MStepInitial(msPost, msInitPrior)
    /\ msPc' = "transition"
    /\ UNCHANGED <<msEntry, msInitMethod, msLags, msData, msEmis, msTrans,
                   msInitPrior, msTransPrior, msEmisVersion, msPost, msDone,
                   msStats, msCounts>>
    /\ UNCHANGED notMsVars

\* m_step, second line: _m_step_transition_distribution(posteriors)
MsTransition ==
    /\ msPc = "transition"
    /\ msTrans' = MStepTransition(msPost, msTransPrior)
    /\ msPc' = "emission"
    /\ UNCHANGED <<msEntry, msInitMethod, msLags, msData, msEmis, msInit,
                   msInitPrior, msTransPrior, msEmisVersion, msPost, msDone,
                   msStats, msCounts>>
    /\ UNCHANGED notMsVars

\* the emission M-step maps scan_one over the batch: any sequence not yet
\* summed in is scanned, and its statistics and counts join the sums
MsScanOne ==
    /\ msPc = "emission"
    /\ \E b \in (1..msB) \ msDone :
          LET one == ScanOne(msData[b], BatchWeights(msPost, b), msLags, msK)
              sum == StatsAdd([stats |-> msStats, counts |-> msCounts], one)
          IN  /\ msStats' = sum.stats
              /\ msCounts' = sum.counts
              /\ msDone' = msDone \cup {b}
    /\ UNCHANGED <<msEntry, msInitMethod, msLags, msData, msEmis, msInit,
                   msTrans, msInitPrior, msTransPrior, msEmisVersion, msPost,
                   msPc>>
    /\ UNCHANGED notMsVars

\* the sums are complete: the emission distribution is replaced by the
\* mode computed from them
MsEmissionUpdate ==
    /\ msPc = "emission"
    /\ msDone = 1..msB
    /\ msEmisVersion' = msEmisVersion + 1
    /\ msPc' = "done"
    /\ UNCHANGED <<msEntry, msInitMethod, msLags, msData, msEmis, msInit,
                   msTrans, msInitPrior, msTransPrior, msPost, msDone,
                   msStats, msCounts>>
    /\ UNCHANGED notMsVars

-----------------------------------------------------------------------------
(* find_permutation: the best matching of the labels of two state vectors *)

\* z.max()
SeqMax(z) ==
    CHOOSE m \in {z[t] : t \in DOMAIN z} : \A t \in DOMAIN z : z[t] <= m

\* K = z.max() + 1 if K is None else K
StatesOf(z, Kopt) == IF Kopt = <<>> THEN SeqMax(z) + 1 ELSE Kopt[1]

\* compute_state_overlap: entry (i, j) counts the times t with z1[t] = i
\* and z2[t] = j; rows and columns are stored from 1, labels count from 0
ComputeStateOverlap(z1, z2, K1opt, K2opt) ==
    LET K1 == StatesOf(z1, K1opt)
        K2 == StatesOf(z2, K2opt)
    IN  [shape |-> <<K1, K2>>,
         m |-> [i \in 1..K1 |->
                  [j \in 1..K2 |->
                      Cardinality({t \in DOMAIN z1 :
                                      z1[t] = i - 1 /\ z2[t] = j - 1})]]]

\* -overlap: the cost matrix handed to linear_sum_assignment
NegatedOverlap(m) == [i \in DOMAIN m |-> [j \in DOMAIN m[i] |-> -m[i][j]]]

\* the sum of cost[r, f[r]] over the rows r in rows
RECURSIVE AssignmentCost(_, _, _)
AssignmentCost(cost, f, rows) ==
    IF rows = {} THEN 0
    ELSE LET r == CHOOSE r \in rows : TRUE
         IN  cost[r + 1][f[r] + 1] + AssignmentCost(cost, f, rows \ {r})

\* the one-to-one assignments of min(K1, K2) rows to columns
Assignments(K1, K2) ==
    UNION {{f \in [rows -> 0..(K2 - 1)] :
               \A r, q \in rows : r # q => f[r] # f[q]} :
           rows \in {R \in SUBSET (0..(K1 - 1)) :
                        Cardinality(R) = Min(K1, K2)}}

\* the elements of a set of numbers in increasing order
RECURSIVE Sorted(_)
Sorted(S) ==
    IF S = {} THEN <<>>
    ELSE LET lo == CHOOSE x \in S : \A y \in S : x <= y
         IN  <<lo>> \o Sorted(S \ {lo})

\* scipy's linear_sum_assignment(cost): the (row_ind, col_ind) pairs it may
\* return, one for every assignment of minimal total cost, rows sorted
LinearSumAssignment(cost, K1, K2) ==
    LET all == Assignments(K1, K2)
        best == {f \in all :
                    \A g \in all :
                        AssignmentCost(cost, f, DOMAIN f)
                            <= AssignmentCost(cost, g, DOMAIN g)}
    IN  {[row_ind |-> Sorted(DOMAIN f),
          col_ind |-> [n \in 1..Cardinality(DOMAIN f) |->
                          f[Sorted(DOMAIN f)[n]]]] : f \in best}

\* np.arange(K)
Arange(K) == [n \in 1..K |-> n - 1]

pmRows == pmOverlap.shape[1]
pmCols == pmOverlap.shape[2]

\* compute_state_overlap with its assertions on shape and sign
PmOverlap ==
    /\ pmPc = "start"
    /\ IF Len(pmZ1) # Len(pmZ2)
          \/ (\E t \in DOMAIN pmZ1 : pmZ1[t] < 0)
          \/ (\E t \in DOMAIN pmZ2 : pmZ2[t] < 0)
       THEN /\ pmPc' = "raised"
            /\ UNCHANGED pmOverlap
       ELSE /\ pmOverlap' = ComputeStateOverlap(pmZ1, pmZ2, pmK1, pmK2)
            /\ pmPc' = "assign"
    /\ UNCHANGED <<pmZ1, pmZ2, pmK1, pmK2, pmPerm>>
    /\ UNCHANGED notPmVars

\* tmp, perm = linear_sum_assignment(-overlap), and the assertion that
\* every row was matched
PmAssign ==
    /\ pmPc = "assign"
    /\ \E a \in LinearSumAssignment(NegatedOverlap(pmOverlap.m),
                                     pmRows, pmCols) :
          IF a.row_ind = Arange(pmRows)
          THEN /\ pmPerm' = a.col_ind
               /\ pmPc' = IF pmRows < pmCols THEN "pad" ELSE "done"
          ELSE /\ pmPc' = "raised"
               /\ UNCHANGED pmPerm
    /\ UNCHANGED <<pmZ1, pmZ2, pmK1, pmK2, pmOverlap>>
    /\ UNCHANGED notPmVars

\* K1 < K2: set(np.arange(K2)) hashes the elements of a jax array (np is
\* jax.numpy), which are unhashable zero-dimensional arrays, so the
\* padding raises TypeError before any column is appended
PmPad ==
    /\ pmPc = "pad"
    /\ pmPc' = "raised"
    /\ UNCHANGED <<pmZ1, pmZ2, pmK1, pmK2, pmOverlap, pmPerm>>
    /\ UNCHANGED notPmVars

-----------------------------------------------------------------------------
(* Specifications *)

EmIdle ==
    /\ entry = NoValue /\ argShape = <<>> /\ evShape = <<>>
    /\ method = NoValue /\ initMethod = NoValue
    /\ numIters = 0 /\ tol = 0 /\ pc = "idle"
    /\ dataset = <<>> /\ kwargs = NoKwargs /\ params = InitialParams
    /\ itr = 0 /\ score = 0 /\ posterior = NoPosterior /\ consumed = NoPosterior
    /\ logProbs = <<>> /\ warned = {} /\ stopReason = NoValue
    /\ err = NoError

FmtIdle ==
    /\ fArr = <<>> /\ fShp = <<>> /\ fOut = Rejected /\ fOut2 = Rejected
    /\ fPc = "idle"

FbIdle ==
    /\ fbInitLogits = <<>> /\ fbTransLogits = <<>> /\ fbLik = <<>>
    /\ fbAlpha = <<>> /\ fbBeta = <<>> /\ fbPost = NoPost /\ fbScore = NaN
    /\ fbPc = "idle"

ArIdle ==
    /\ arPrev = <<>> /\ arLags = 0 /\ arData = <<>> /\ arInitLogits = <<>>
    /\ arTransLogits = <<>> /\ arEmis = <<>> /\ arX = <<>> /\ arT = 0
    /\ arLik = <<>> /\ arPost = NoArPost /\ arScore = NaN
    /\ arStats = <<>> /\ arCounts = <<>> /\ arPc = "idle"

MsIdle ==
    /\ msEntry = NoValue /\ msInitMethod = NoValue /\ msLags = 0
    /\ msData = <<>> /\ msEmis = <<>> /\ msInit = <<>> /\ msTrans = <<>>
    /\ msInitPrior = <<>> /\ msTransPrior = <<>> /\ msEmisVersion = 0
    /\ msPost = <<>> /\ msDone = {} /\ msStats = <<>> /\ msCounts = <<>>
    /\ msPc = "idle"

PmIdle ==
    /\ pmZ1 = <<>> /\ pmZ2 = <<>> /\ pmK1 = <<>> /\ pmK2 = <<>>
    /\ pmOverlap = [shape |-> <<0, 0>>, m |-> <<>>]
    /\ pmPerm = <<>>
    /\ pmPc = "idle"

Init ==
    /\ entry \in {"fit", "initialize"}
    /\ argShape \in CallShapes
    /\ evShape = <<2>>
    /\ initMethod \in (IF entry = "fit" THEN InitMethods
                       ELSE InitMethods \ {PyNone})
    /\ method \in (IF entry = "fit" THEN FitMethods ELSE {"em"})
    /\ numIters \in (IF entry = "fit" THEN 0..MaxIters ELSE {0})
    /\ tol \in (IF entry = "fit" THEN TolValues ELSE {DefaultTol})
    /\ pc = "call"
    /\ dataset = <<>> /\ kwargs = NoKwargs /\ params = InitialParams
    /\ itr = 0 /\ score = 0 /\ posterior = NoPosterior /\ consumed = NoPosterior
    /\ logProbs = <<>> /\ warned = {} /\ stopReason = NoValue
    /\ err = NoError
    /\ FmtIdle
    /\ FbIdle
    /\ ArIdle
    /\ MsIdle
    /\ PmIdle

Next ==
    \/ Wrapper
    \/ Initialize
    \/ Dispatch
    \/ EmLoop
    \/ EStep
    \/ MStep
    \/ EmCheck

Spec == Init /\ [][Next]_vars

InitFormat ==
    /\ fShp \in Shapes(MaxNdim - 2)
    /\ fArr \in Shapes(MaxNdim)
    /\ fOut = Rejected /\ fOut2 = Rejected
    /\ fPc = "start"
    /\ EmIdle
    /\ FbIdle
    /\ ArIdle
    /\ MsIdle
    /\ PmIdle

NextFormat == FormatCall \/ FormatAgain

SpecFormat == InitFormat /\ [][NextFormat]_vars

-----------------------------------------------------------------------------
(* Claims about fit, initialize and the EM driver (under Spec) *)

InEm == pc \in {"loop", "estep", "mstep", "check"}

FitReturned == entry = "fit" /\ pc = "returned"

\* the tolerance test of the caller's tol on trace entries n-1 and n
FiredAt(n) == Abs(logProbs[n] - logProbs[n - 1]) < tol

C1_Stopping ==
    /\ itr <= numIters
    /\ Len(logProbs) <= numIters
    /\ InEm => \A n \in 2..Len(logProbs) : ~FiredAt(n)
    /\ FitReturned =>
        /\ Len(logProbs) = itr
        /\ \A n \in 2..(Len(logProbs) - 1) : ~FiredAt(n)
        /\ itr < numIters => (itr >= 2 /\ FiredAt(itr))

\* C1 as stated: fit with method "em" never performs more than num_iters
\* iterations, stops before num_iters only at the first iteration whose
\* tolerance test fires, and with a negative tol runs exactly num_iters
\* iterations and returns a trace that has a last element.
C1_AsStated ==
    /\ C1_Stopping
    /\ (FitReturned /\ tol < 0) => (itr = numIters /\ Len(logProbs) >= 1)

\* C1 amended: as stated, except that the trace has a last element only
\* when num_iters >= 1 (with num_iters = 0 no iteration runs and the trace
\* is empty).
C1_StopsAtToleranceOrMaxIters ==
    /\ C1_Stopping
    /\ (FitReturned /\ tol < 0) =>
        /\ itr = numIters
        /\ Len(logProbs) = numIters
        /\ numIters >= 1 => logProbs[Len(logProbs)] = score

C1_Witness ==
    /\ FitReturned /\ tol < 0 /\ numIters >= 2 /\ itr = numIters
    /\ logProbs[1] = logProbs[2]

EmPhase ==
    CASE pc \in {"call", "initialize", "dispatch"} -> "Initializing"
      [] InEm -> "Iterating"
      [] pc = "returned" /\ stopReason = "converged" -> "Converged"
      [] pc = "returned" /\ stopReason = "max_iter" -> "MaxIterReached"
      [] pc = "returned" -> "Initialized"
      [] OTHER -> "Raised"

PhaseMoves ==
    {<<"Initializing", "Initializing">>, <<"Initializing", "Iterating">>,
     <<"Initializing", "Raised">>, <<"Iterating", "Iterating">>,
     <<"Iterating", "Converged">>, <<"Iterating", "MaxIterReached">>}

C2_Order ==
    \* the E-step of iteration itr+1 ran under the current parameters,
    \* after initialization
    /\ pc = "mstep" =>
        /\ posterior = [params |-> params, iteration |-> itr + 1]
        /\ params.emission =
              itr + (IF initMethod = PyNone THEN 0 ELSE 1)
        /\ consumed.iteration = itr
    \* the M-step of that iteration consumed exactly those posteriors
    /\ pc = "check" =>
        /\ consumed = posterior
        /\ posterior.iteration = itr + 1
        /\ params = MStepAll(posterior.params)
    /\ pc \in {"call", "initialize", "dispatch"} =>
        (posterior = NoPosterior /\ consumed = NoPosterior /\ itr = 0)

C2_Moves ==
    /\ <<EmPhase, EmPhase'>> \in PhaseMoves
    /\ EmPhase = "Initializing" =>
        (posterior' = posterior /\ consumed' = consumed)
    /\ EmPhase' \in {"Converged", "MaxIterReached"} =>
        (posterior' = posterior /\ consumed' = consumed /\ params' = params)

\* C2: a fit call only moves Initializing -> Iterating -> (Converged |
\* MaxIterReached); initialization is finished before the first E-step;
\* in every iteration the E-step runs under the current parameters before
\* the M-step, which consumes exactly that E-step's posteriors; and no E-
\* or M-step runs once Converged or MaxIterReached is reached.
C2_DriverOrder ==
    /\ [](entry = "fit" => C2_Order)
    /\ [][entry = "fit" => C2_Moves]_vars
    /\ [][EmPhase \notin {"Converged", "MaxIterReached", "Raised"}]_vars

C2_Witness ==
    /\ entry = "fit" /\ initMethod = "kmeans" /\ pc = "check" /\ itr = 1
    /\ params.emission = 3

C3_UnknownInit ==
    /\ entry = "initialize" \/ initMethod # PyNone
    /\ Lower(initMethod) \notin {"random", "kmeans"}

C3_UnknownFit == entry = "fit" /\ method # "em"

\* C3: with an unknown fitting method, or an unknown initialization
\* method, the call never returns normally and never runs an EM iteration,
\* and once the dataset has passed the wrapper's shape check the error it
\* raises names the invalid value (the initialization method when that is
\* the one checked first, else the fitting method).
C3_UnknownMethodFails ==
    (C3_UnknownInit \/ C3_UnknownFit) =>
        /\ pc \notin {"returned", "loop", "estep", "mstep", "check"}
        /\ itr = 0 /\ logProbs = <<>> /\ posterior = NoPosterior
        /\ (pc = "raised" /\ dataset # <<>>) =>
              err = IF C3_UnknownInit
                    THEN [type |-> "Exception", value |-> initMethod]
                    ELSE [type |-> "ValueError", value |-> method]

C3_Witness ==
    /\ entry = "fit" /\ method = "laplace_em" /\ initMethod = "KMeans"
    /\ pc = "raised" /\ err.value = "laplace_em"

C4_DecreaseAt(n) == logProbs[n] < logProbs[n - 1] - FpTol

\* C4: whenever the trace holds a score lower than its predecessor by more
\* than the floating-point tolerance, a warning was raised for that
\* iteration, no error was raised, the decreased score is in the trace, and
\* the driver has stopped at that iteration only if the tolerance test
\* fired or it was iteration num_iters.
C4_DecreaseWarnsAndContinues ==
    /\ (pc \in {"loop", "returned"} /\ itr >= 1) => logProbs[itr] = score
    /\ \A n \in 2..Len(logProbs) :
          C4_DecreaseAt(n) =>
            /\ n \in warned
            /\ pc # "raised" /\ err = NoError
            /\ (pc = "returned" /\ n = Len(logProbs)) =>
                  (FiredAt(n) \/ n = numIters)

C4_Witness ==
    /\ Len(logProbs) = 3 /\ C4_DecreaseAt(2) /\ 2 \in warned
    /\ pc = "returned"

\* C12 as stated, for the model object the caller passed to fit: no step of
\* fit's initialization changes the initial, transition or emission
\* distribution that object holds (the new parameters live in a new object).
C12_InitializationKeepsCallerModel ==
    [][(entry = "fit" /\ pc \in {"call", "initialize"}) => params' = params]_vars

\* fit has raised the error of an unrecognised method
FitMethodRejected ==
    entry = "fit" /\ pc = "raised" /\ err = FitMethodError(method)

\* C21 as stated: when fit is called with an unrecognised method and a valid
\* initialization method, the model is as it was before the call when the
\* error is raised: no parameter, the emission distribution in particular,
\* has been changed.
C21_UnknownMethodLeavesModel ==
    (FitMethodRejected /\ InitializeKnown(initMethod)) =>
        params = InitialParams

\* without an initialization the rejected call has changed no parameter,
\* and with one only the emission distribution, exactly once
C21_OnlyInitializationRan ==
    FitMethodRejected =>
        /\ ~FitMethodKnown(method)
        /\ params.initial = InitialParams.initial
        /\ params.transition = InitialParams.transition
        /\ params.emission =
              IF initMethod = PyNone THEN InitialParams.emission
              ELSE InitialParams.emission + 1

-----------------------------------------------------------------------------
(* Claims about format_dataset (under SpecFormat) *)

\* the trailing Len(fShp) dimensions of fArr are the event shape
C5_EventShapeMatches ==
    /\ Len(fArr) >= Len(fShp)
    /\ \A i \in 1..Len(fShp) : fArr[Len(fArr) - Len(fShp) + i] = fShp[i]

\* C5: the wrapped body runs only with a dataset of Len(event shape) + 2
\* dimensions: an unbatched array gets batch size 1, a batched array is
\* passed unchanged, normalising the result again changes nothing, and
\* every other array (another number of dimensions, another trailing event
\* shape) is rejected with the body never run.
C5_BatchDimension ==
    fPc # "start" =>
        /\ (Len(fArr) = Len(fShp) + 1 /\ C5_EventShapeMatches) =>
              (fOut = Accepted(<<1>> \o fArr) /\ fPc # "raised")
        /\ (Len(fArr) = Len(fShp) + 2 /\ C5_EventShapeMatches) =>
              (fOut = Accepted(fArr) /\ fPc # "raised")
        /\ ~(Len(fArr) \in {Len(fShp) + 1, Len(fShp) + 2}
              /\ C5_EventShapeMatches) =>
              (~fOut.ok /\ fPc = "raised")
        /\ fPc \in {"body", "inner"} =>
              (fOut.ok /\ Len(fOut.shape) = Len(fShp) + 2)
        /\ fPc = "inner" => fOut2 = fOut

C5_Witness ==
    /\ fPc = "inner" /\ fShp = <<2>> /\ fArr = <<2, 2>>
    /\ fOut2.shape = <<1, 2, 2>>

\* the inputs of inference: K states, T timesteps, finite logits, and
\* likelihoods that may be -inf (weight 0) for some states
InitFB ==
    /\ \E K \in 1..MaxStates, T \in 1..MaxSteps :
          /\ fbInitLogits \in [1..K -> 1..MaxWeight]
          /\ fbTransLogits \in [1..K -> [1..K -> 1..MaxWeight]]
          /\ fbLik \in [1..T -> [1..K -> {RInt(w) : w \in 0..MaxWeight}]]
    /\ fbAlpha = <<>> /\ fbBeta = <<>> /\ fbPost = NoPost /\ fbScore = NaN
    /\ fbPc = "forward"
    /\ EmIdle
    /\ FmtIdle
    /\ ArIdle
    /\ MsIdle
    /\ PmIdle

NextFB == FbForward \/ FbBackward \/ FbMarginals \/ FbMarginalLikelihood

SpecFB == InitFB /\ [][NextFB]_vars

-----------------------------------------------------------------------------
(* Claims about posterior inference (under SpecFB) *)

\* sum_i exp(row[i])
C6_RowMass(row) == RSum(row)

\* sum_{i,j} exp(slice[i][j])
C6_SliceMass(slice) ==
    RSum([i \in DOMAIN slice |-> RSum(slice[i])])

\* C6: every posterior whose log normalizer is finite is normalised: each
\* of the T rows of expected state occupancies sums to 1 over the K
\* states, there are T-1 pairwise slices, and each K x K slice sums to 1.
C6_PosteriorNormalised ==
    (fbPc = "done" /\ fbPost.logZ # RInt(0)) =>
        /\ Len(fbPost.gamma) = fbT
        /\ \A t \in 1..fbT : C6_RowMass(fbPost.gamma[t]) = RInt(1)
        /\ Len(fbPost.xi) = fbT - 1
        /\ \A t \in 1..(fbT - 1) : C6_SliceMass(fbPost.xi[t]) = RInt(1)

C6_Witness ==
    /\ fbPc = "done" /\ fbT = 3 /\ fbK = 2
    /\ fbPost.logZ # RInt(0)
    /\ fbLik[2][1] = RInt(0)
    /\ fbPost.gamma[1][1] # fbPost.gamma[1][2]
    /\ fbPost.xi[1][1][2] # fbPost.xi[2][2][1]

\* the backward row of time t, once the backward pass has reached it
C7_Beta(t) == fbBeta[t - (fbT - Len(fbBeta))]

\* C7: at every timestep t the forward and backward messages satisfy
\* logsumexp_i(alpha[t,i] + beta[t,i]) = logsumexp_i(alpha[T-1,i]), the log
\* normalizer the posterior reports.
C7_AlphaBetaConstant ==
    /\ fbPc \in {"backward", "marginals", "done"} =>
          \A t \in (fbT - Len(fbBeta) + 1)..fbT :
              RSum([i \in 1..fbK |-> RMul(fbAlpha[t][i], C7_Beta(t)[i])])
                  = RSum(fbAlpha[fbT])
    /\ fbPc = "done" => fbPost.logZ = RSum(fbAlpha[fbT])

C7_Witness ==
    /\ fbPc = "done" /\ fbT = 3 /\ fbK = 2
    /\ fbBeta[1] # fbBeta[2] /\ fbBeta[1][1] # fbBeta[1][2]
    /\ fbAlpha[1][1] # fbAlpha[1][2]
    /\ fbPost.logZ # RInt(0)

\* C11 as stated: a sequence whose log-likelihood is -inf for all states
\* (log normalizer -inf) is reported instead of being scored, and no score
\* that is returned is NaN.
C11_DegenerateReportedNeverNaN ==
    fbPc = "scored" => (fbPost.logZ # RInt(0) /\ ~IsNaN(fbScore))

\* the scores that are returned for non-degenerate sequences whose dummy
\* state sequence has positive probability are the log normalizer
C11_ScoreOfRegularSequence ==
    (/\ fbPc = "scored"
     /\ HmmLogProbability(DummyStates(fbLik), fbLogInit, fbLik, fbLogTrans)
            # RInt(0)) =>
        fbScore = fbPost.logZ

-----------------------------------------------------------------------------
(* Inputs and specification of the autoregressive HMM *)

\* observation vectors of dimension 2
Observations == {<<0, 0>>, <<1, 1>>, <<1, 0>>}

EmissionParams == {[bias |-> 0, coef |-> 1], [bias |-> 1, coef |-> 0]}

\* transition logits with weight d on the diagonal and o off it
StickyLogits(K, d, o) ==
    [i \in 1..K |-> [j \in 1..K |-> IF i = j THEN d ELSE o]]

\* one step of the scan in sample: an emission is drawn given the history
\* and joins the history
ArSampleStep ==
    /\ arPc = "sample"
    /\ arT < MaxSteps
    /\ \E emission \in Observations :
          /\ arData' = Append(arData, emission)
          /\ arX' = RowStack(arX, emission)
    /\ arT' = arT + 1
    /\ UNCHANGED <<arPrev, arLags, arInitLogits, arTransLogits, arEmis,
                   arLik, arPost, arScore, arStats, arCounts, arPc>>
    /\ UNCHANGED notArVars

InitAR ==
    /\ arLags \in 1..MaxLags
    /\ \/ /\ \E K \in 1..MaxStates, T \in 1..MaxSteps :
                /\ arData \in [1..T -> Observations]
                /\ \E w \in 1..MaxWeight :
                      /\ arInitLogits =
                            [k \in 1..K |-> IF k = 1 THEN w ELSE 1]
                      /\ arTransLogits = StickyLogits(K, w, 1)
                /\ arEmis \in [1..K -> EmissionParams]
          /\ arPrev = ZeroWindow(arLags, 2)
          /\ arPc = "lik"
       \/ /\ arData = <<>> /\ arInitLogits = <<>> /\ arTransLogits = <<>>
          /\ arEmis = <<>>
          /\ arPrev \in [1..arLags -> Observations]
          /\ arPc = "sample"
    /\ arX = arPrev
    /\ arT = 0
    /\ arLik = <<>> /\ arPost = NoArPost /\ arScore = NaN
    /\ arStats = <<>> /\ arCounts = <<>>
    /\ EmIdle
    /\ FmtIdle
    /\ FbIdle
    /\ MsIdle
    /\ PmIdle

NextAR ==
    \/ ArLikStep
    \/ ArInferPosterior
    \/ ArMarginalLikelihood
    \/ ArScanStart
    \/ ArCollect
    \/ ArScanEnd
    \/ ArSampleStep

SpecAR == InitAR /\ [][NextAR]_vars

-----------------------------------------------------------------------------
(* Claims about the autoregressive HMM (under SpecAR) *)

StateSequences == [1..arLen -> 1..arK]

ArScored == arPc \in {"mstep", "scan", "done"}

\* C8 as stated: the score marginal_likelihood returns is the log
\* normalizer of the forward pass, and for every fixed state sequence the
\* joint log-probability of (states, data) minus the posterior's
\* log-probability of the states is that same log normalizer.
C8_MarginalIsJointMinusPosterior ==
    ArScored =>
        /\ arScore = arPost.logZ
        /\ \A z \in StateSequences :
              RDiv(LogProbability(z, arData, arLags, arLogInit, arLogTrans,
                                  arEmis),
                   PosteriorLogProb(arPost, z)) = arPost.logZ

\* the L observations before time t, zero rows standing for times before 1
C9_History(t) ==
    [l \in 1..arLags |->
        IF t - arLags + l - 1 >= 1 THEN arData[t - arLags + l - 1]
        ELSE [d \in 1..arDim |-> 0]]

\* the joint log-probability with emission terms for the times after the
\* first L only
RECURSIVE C9_JointFrom(_, _)
C9_JointFrom(z, t) ==
    LET trans == IF t = 1 THEN arLogInit[z[1]]
                 ELSE arLogTrans[z[t - 1]][z[t]]
        emit == IF t <= arLags THEN RInt(1)
                ELSE EmissionLogProb(arEmis[z[t]], arData[t],
                                     Ravel(C9_History(t)))
        here == RMul(trans, emit)
    IN  IF t = 1 THEN here ELSE RMul(C9_JointFrom(z, t - 1), here)

\* the weighted statistics of state k summed over the times L+1..t
RECURSIVE C9_StatsUpTo(_, _)
C9_StatsUpTo(k, t) ==
    IF t <= arLags THEN InitStats(arLags, arDim)
    ELSE AddWeighted(C9_StatsUpTo(k, t - 1), arPost.expected_states[t][k],
                     GaussianLinregSuffStats(arData[t], Ravel(C9_History(t))))

RECURSIVE C9_CountUpTo(_, _)
C9_CountUpTo(k, t) ==
    IF t <= arLags THEN RInt(0)
    ELSE RAdd(C9_CountUpTo(k, t - 1), arPost.expected_states[t][k])

C9_LikelihoodPrefixZero ==
    ArScored =>
        \A t \in 1..Min(arLags, arLen) : \A k \in 1..arK :
            arLik[t][k] = RInt(1)

C9_JointSkipsPrefix ==
    ArScored =>
        \A z \in StateSequences :
            LogProbability(z, arData, arLags, arLogInit, arLogTrans, arEmis)
                = C9_JointFrom(z, arLen)

C9_StatsSkipPrefix ==
    arPc = "done" =>
        \A k \in 1..arK :
            /\ arStats[k] = C9_StatsUpTo(k, arLen)
            /\ arCounts[k] = C9_CountUpTo(k, arLen)

\* C9 as stated: for a lag-L model the first L timesteps contribute
\* nothing: their log-likelihood rows are exactly 0, the joint
\* log-probability has no emission term for them, and the statistics and
\* counts are sums over the later timesteps only.
C9_FirstLagsContributeNothing ==
    /\ C9_LikelihoodPrefixZero
    /\ C9_JointSkipsPrefix
    /\ C9_StatsSkipPrefix

\* C10: for L = 1 and K = 1 a two-timestep sequence <<a, b>> with state
\* weight 1 leaves lag-window first moment a, observation first moment b
\* and count 1, so [[0,0],[1,1]] gives [0,0], [1,1] and 1: the first
\* timestep adds nothing and the second is accumulated once, its window
\* being the first observation.
C10_TwoStepAccumulator ==
    (/\ arPc = "done" /\ arLags = 1 /\ arK = 1 /\ arLen = 2
     /\ \A t \in 1..2 : arPost.expected_states[t][1] = RInt(1)) =>
        /\ arStats[1].x = [d \in 1..arDim |-> RInt(arData[1][d])]
        /\ arStats[1].y = [d \in 1..arDim |-> RInt(arData[2][d])]
        /\ arCounts[1] = RInt(1)
        /\ arT = 1
        /\ arData = <<(<<0, 0>>), (<<1, 1>>)>> =>
              /\ arStats[1].x = <<RInt(0), RInt(0)>>
              /\ arStats[1].y = <<RInt(1), RInt(1)>>
              /\ arStats[1].xx = ZeroMat(2, 2)
              /\ arStats[1].yx = ZeroMat(2, 2)

C10_Witness ==
    /\ arPc = "done" /\ arLags = 1 /\ arK = 1
    /\ arData = <<(<<0, 0>>), (<<1, 1>>)>>
    /\ arPost.expected_states = <<(<<RInt(1)>>), (<<RInt(1)>>)>>
    /\ arCounts = <<RInt(1)>>

\* the lag window for observation t (counted from 1) of a sequence: the
\* lags observations before it in time order, the rows of prev standing
\* for the times before the first observation
C15_Window(prev, data, t) ==
    [l \in 1..Len(prev) |->
        IF t - Len(prev) + l - 1 >= 1 THEN data[t - Len(prev) + l - 1]
        ELSE prev[t + l - 1]]

\* the windows log_probability carries, for every supplied prev_emissions
\* of num_lags rows: after observations 1..t the carry holds the window of
\* observation t + 1
C15_JointWindows ==
    \A prev \in [1..arLags -> Observations], t \in 1..arLen :
        LogProbabilityCarry(DummyStates(SubSeq(arData, 1, t)),
                            SubSeq(arData, 1, t), prev, arLogInit,
                            arLogTrans, arEmis).x
            = C15_Window(prev, arData, t + 1)

\* C15: every lag-window scan runs left to right over the sequence and,
\* when observation t is processed, carries exactly num_lags rows, the
\* observations t-L .. t-1 in time order, with zero rows (or the supplied
\* prev_emissions) for the times before the first observation; the window
\* keeps its length after every step.  The scans are those of the
\* per-timestep log-likelihoods, the joint log-probability, the M-step
\* statistics and sampling.
C15_WindowHoldsLastLagsRows ==
    /\ arPc = "lik" =>
          /\ Len(arX) = arLags
          /\ arX = C15_Window(arPrev, arData, arT + 1)
          /\ Len(arLik) = arT
          /\ \A t \in 1..arT :
                arLik[t] = ComputeLL(arEmis, C15_Window(arPrev, arData, t),
                                     arData[t])
    /\ arPc = "score" => C15_JointWindows
    /\ (arPc = "scan" /\ arLen > arLags) =>
          /\ Len(arX) = arLags
          /\ arX = C15_Window(arPrev, arData, arLags + arT + 1)
          /\ arX = SubSeq(arData, arT + 1, arT + arLags)
    /\ arPc = "sample" =>
          /\ Len(arX) = arLags
          /\ Len(arData) = arT
          /\ arX = C15_Window(arPrev, arData, arT + 1)

\* a sampling run with two lags and a supplied history whose window has
\* moved on to hold one supplied row and the first emission
C15_Witness ==
    /\ arPc = "sample"
    /\ arLags = 2
    /\ arT = 1
    /\ arPrev[2] # <<0, 0>>
    /\ arData[1] # arPrev[2]
    /\ arX = <<arPrev[2], arData[1]>>

\* a statistics scan with two lags that has processed one observation
C15_WitnessScan ==
    /\ arPc = "scan"
    /\ arLags = 2
    /\ arLen = 3
    /\ arT = 1
    /\ arData[2] # arData[3]
    /\ arX = <<arData[2], arData[3]>>

-----------------------------------------------------------------------------
(* Inputs and specification of one initialization or M-step on a batch *)

MaxBatch == 2
MaxBatchSteps == 2

\* observation vectors of the batch
BatchObservations == {<<0, 0>>, <<1, 1>>}

\* an initialization is tried on the default priors and uniform
\* distributions, an M-step on every prior and distribution
BatchWeightsOfEntry(e) == IF e = "m_step" THEN 1..MaxWeight ELSE {1}

BatchConcentrations(e) ==
    IF e = "m_step" THEN Concentrations ELSE {DefaultConcentration}

InitMStep ==
    /\ msEntry \in {"fit_init", "m_step"}
    /\ msInitMethod \in
          IF msEntry = "fit_init" THEN {PyNone, "random", "kmeans"}
          ELSE {PyNone}
    /\ msLags \in 1..MaxLags
    /\ \E K \in 1..MaxStates, B \in 1..MaxBatch, T \in 1..MaxBatchSteps :
          /\ msData \in [1..B -> [1..T -> BatchObservations]]
          /\ msEmis \in [1..K -> EmissionParams]
          /\ \E w \in BatchWeightsOfEntry(msEntry) :
                /\ msInit = LogInitialStateProbabilities(
                                [k \in 1..K |-> IF k = 1 THEN w ELSE 1])
                /\ msTrans = LogTransitionProbabilities(
                                 StickyLogits(K, w, 1))
          /\ \E c \in BatchConcentrations(msEntry) :
                /\ msInitPrior = [k \in 1..K |-> c]
                /\ msTransPrior = StickyLogits(K, c, DefaultConcentration)
          /\ msStats = [k \in 1..K |-> InitStats(msLags, 2)]
          /\ msCounts = [k \in 1..K |-> RInt(0)]
    /\ msEmisVersion = 0
    /\ msPost = <<>>
    /\ msDone = {}
    /\ msPc = "start"
    /\ EmIdle
    /\ FmtIdle
    /\ FbIdle
    /\ ArIdle
    /\ PmIdle

NextMStep ==
    \/ MsInitialize
    \/ MsEStep
    \/ MsInitial
    \/ MsTransition
    \/ MsScanOne
    \/ MsEmissionUpdate

SpecMStep == InitMStep /\ [][NextMStep]_vars

-----------------------------------------------------------------------------
(* Claims about the batch (under SpecMStep) *)

\* the statistics and counts of sequence b on its own
C13_Alone(b) ==
    ScanOne(msData[b], msPost[b].expected_states, msLags, msK)

\* the sum, in batch order, of the sequences among 1..n that are in set S
RECURSIVE C13_SumInOrder(_, _)
C13_SumInOrder(n, S) ==
    IF n = 0
    THEN [stats |-> [k \in 1..msK |-> InitStats(msLags, 2)],
          counts |-> [k \in 1..msK |-> RInt(0)]]
    ELSE IF n \in S THEN StatsAdd(C13_SumInOrder(n - 1, S), C13_Alone(n))
    ELSE C13_SumInOrder(n - 1, S)

\* the same sum taken from the last sequence to the first
RECURSIVE C13_SumReversed(_)
C13_SumReversed(n) ==
    IF n > msB
    THEN [stats |-> [k \in 1..msK |-> InitStats(msLags, 2)],
          counts |-> [k \in 1..msK |-> RInt(0)]]
    ELSE StatsAdd(C13_SumReversed(n + 1), C13_Alone(n))

\* C13: the sequences of a batch are processed independently.  After the
\* E-step there is one posterior per sequence, in batch order, equal to the
\* posterior inferred from that sequence alone (so equal sequences have
\* equal posteriors); and in whatever order the emission M-step has summed
\* sequences in, its statistics and counts are the batch-order sum of the
\* sequences processed so far, which for the whole batch is also the sum
\* taken in the reverse order.
C13_BatchIndependent ==
    /\ (msEntry = "m_step" /\ msPc = "initial") =>
          /\ Len(msPost) = msB
          /\ \A b \in 1..msB :
                msPost[b] = SequencePosterior(
                                msInit,
                                LogLikelihoods(msData[b], msLags, msEmis),
                                msTrans)
          /\ \A b, c \in 1..msB :
                msData[b] = msData[c] => msPost[b] = msPost[c]
    /\ msPc \in {"emission", "done"} =>
          /\ [stats |-> msStats, counts |-> msCounts]
                = C13_SumInOrder(msB, msDone)
          /\ msDone = 1..msB =>
                [stats |-> msStats, counts |-> msCounts] = C13_SumReversed(1)

C13_Witness ==
    /\ msEntry = "m_step" /\ msPc = "done"
    /\ msB = 2 /\ msT = 2 /\ msK = 2 /\ msLags = 1
    /\ msDone = {1, 2}
    /\ C13_Alone(1) # C13_Alone(2)
    /\ msPost[1].expected_states # msPost[2].expected_states
    /\ msCounts[1] # RInt(0) /\ msCounts[1] # msCounts[2]


\* an M-step whose transition update has run
MsTransitionUpdated == msEntry = "m_step" /\ msPc \in {"emission", "done"}

\* an M-step whose initial-state update has run
MsInitialUpdated ==
    msEntry = "m_step" /\ msPc \in {"transition", "emission", "done"}

\* C16 as stated: the transition M-step sums the expected transitions of
\* all sequences into one K x K matrix, adds the Dirichlet row prior and
\* sets each row to the mode of its Dirichlet posterior, so every row of
\* the new transition matrix is a probability vector summing to 1.
C16_TransitionRowsAreProbabilities ==
    MsTransitionUpdated =>
        /\ msTrans =
              [i \in 1..msK |->
                  DirichletMode(
                      RVecAdd(SumTransitions(msPost, msB, msK)[i],
                              msTransPrior[i]))]
        /\ \A i \in 1..msK : IsProbabilityVector(msTrans[i])

\* with the default prior the rows are probability vectors
C16_DefaultPriorRows ==
    (MsTransitionUpdated /\ msTransPrior[1][1] = DefaultConcentration) =>
        \A i \in 1..msK : IsProbabilityVector(msTrans[i])

\* C17 as stated: the initial-state M-step sets the distribution to
\* (c_i - 1) / (sum(c) - K) of the summed first-step occupancies plus the
\* prior, and the result is always a valid probability vector, also for
\* K = 1 and for concentrations below 1.
C17_InitialIsProbabilityVector ==
    MsInitialUpdated => IsProbabilityVector(msInit)

\* with the default prior, and with one state, the result is a
\* probability vector
C17_DefaultPriorOrOneState ==
    (MsInitialUpdated /\ (msInitPrior[1] = DefaultConcentration \/ msK = 1))
        => IsProbabilityVector(msInit)


\* the row puts weight 1 on exactly one state and 0 on the others
C18_IsOneHot(row) ==
    \E k \in DOMAIN row :
        \A j \in DOMAIN row : row[j] = IF j = k THEN RInt(1) ELSE RInt(0)

\* C18: initialization seeds the emission parameters only: the hard
\* assignments (random or k-means) become one-hot expected states, a
\* weight of 1 on exactly one of the K states per observation, the
\* emission M-step runs once on them, and the initial distribution, the
\* transition distribution and the priors stay as they were; with
\* initialization_method None no initialization is performed at all.
C18_InitializeSeedsEmissionsOnly ==
    /\ [](msEntry = "fit_init" =>
            /\ (msInitMethod # PyNone /\ msPc \in {"emission", "done"}) =>
                  /\ Len(msPost) = msB
                  /\ \A b \in 1..msB :
                        /\ Len(msPost[b].expected_states) = msT
                        /\ \A t \in 1..msT :
                              /\ Len(msPost[b].expected_states[t]) = msK
                              /\ C18_IsOneHot(msPost[b].expected_states[t])
            /\ msPc = "done" =>
                  msEmisVersion = IF msInitMethod = PyNone THEN 0 ELSE 1
            /\ msPc # "done" => msEmisVersion = 0)
    /\ [][msEntry = "fit_init" =>
            /\ UNCHANGED <<msInit, msTrans, msInitPrior, msTransPrior>>
            /\ msInitMethod = PyNone =>
                  UNCHANGED <<msEmis, msEmisVersion, msPost, msDone,
                              msStats, msCounts>>]_vars

\* a k-means initialization of a two-state model that has finished: the
\* first observation went to the first state, the second to the other
C18_Witness ==
    /\ msEntry = "fit_init"
    /\ msInitMethod = "kmeans"
    /\ msPc = "done"
    /\ msK = 2
    /\ msT = 2
    /\ msEmisVersion = 1
    /\ msPost[1].expected_states = <<<<RInt(1), RInt(0)>>, <<RInt(0), RInt(1)>>>>

\* fit with initialization_method None: done with nothing touched
C18_WitnessNone ==
    /\ msEntry = "fit_init"
    /\ msInitMethod = PyNone
    /\ msPc = "done"
    /\ msEmisVersion = 0
    /\ msPost = <<>>


\* the posterior of a one-step sequence with likelihood row likRow under
\* the current parameters: the filtered row is log_init + lik[0], the log
\* normalizer its logsumexp, and there is no pairwise statistic
C19_OneStepPosterior(likRow) ==
    LET post == SequencePosterior(msInit, <<likRow>>, msTrans)
        alpha == ForwardPass(msInit, <<likRow>>, msTrans, 1)
    IN  /\ Len(alpha) = 1
        /\ alpha[1] = [k \in 1..msK |-> RMul(msInit[k], likRow[k])]
        /\ post.logZ = RSum(alpha[1])
        /\ LogXi(alpha, BackwardPass(<<likRow>>, msTrans, msK, 1),
                 <<likRow>>, msTrans, post.logZ) = <<>>
        /\ \A i, j \in 1..msK : post.expected_transitions[i][j] = RInt(0)

\* C19: for a sequence of one timestep the forward pass is the single row
\* alpha[0] = log_init + lik[0], the log normalizer is logsumexp(alpha[0]),
\* there are no pairwise statistics, and the sequence adds nothing to the
\* transition counts: a batch of one-step sequences leaves every new
\* transition row at the mode of its prior row.
C19_OneStepSequence ==
    (msEntry = "m_step" /\ msT = 1) =>
        /\ msPc = "initial" =>
              /\ \A likRow \in [1..msK -> {RInt(w) : w \in 0..MaxWeight}] :
                    C19_OneStepPosterior(likRow)
              /\ \A b \in 1..msB :
                    /\ msPost[b].logZ
                         = RSum(AlphaFirst(msInit,
                                LogLikelihoods(msData[b], msLags, msEmis)[1]))
                    /\ \A i, j \in 1..msK :
                          msPost[b].expected_transitions[i][j] = RInt(0)
        /\ MsTransitionUpdated =>
              \A i \in 1..msK : msTrans[i] = DirichletMode(msTransPrior[i])

\* an M-step on two one-step sequences of a two-state model with a prior
\* that favours staying: the new rows are the prior's mode, not uniform
C19_Witness ==
    /\ msEntry = "m_step"
    /\ msT = 1
    /\ msB = 2
    /\ msK = 2
    /\ msPc = "done"
    /\ msTransPrior[1] = <<<<2, 1>>, DefaultConcentration>>
    /\ msTrans[1] = <<<<10, 11>>, <<1, 11>>>>


-----------------------------------------------------------------------------
(* Inputs and specification of find_permutation *)

MaxPermLen == 2
MaxLabel == 2
MaxPermStates == 3

\* two label vectors, and for each an optional number of states
InitPerm ==
    /\ \E T1, T2 \in 1..MaxPermLen :
          /\ pmZ1 \in [1..T1 -> 0..MaxLabel]
          /\ pmZ2 \in [1..T2 -> 0..MaxLabel]
    /\ pmK1 \in {<<>>} \cup {<<k>> : k \in 0..MaxPermStates}
    /\ pmK2 \in {<<>>} \cup {<<k>> : k \in 0..MaxPermStates}
    /\ pmOverlap = [shape |-> <<0, 0>>, m |-> <<>>]
    /\ pmPerm = <<>>
    /\ pmPc = "start"
    /\ EmIdle
    /\ FmtIdle
    /\ FbIdle
    /\ ArIdle
    /\ MsIdle

NextPerm ==
    \/ PmOverlap
    \/ PmAssign
    \/ PmPad

SpecPerm == InitPerm /\ [][NextPerm]_vars

\* the total overlap of matching label i of z1 with label f[i] of z2
RECURSIVE C20_Overlap(_, _)
C20_Overlap(f, n) ==
    IF n = 0 THEN 0 ELSE pmOverlap.m[n][f[n] + 1] + C20_Overlap(f, n - 1)

\* C20: for equal-length vectors of non-negative labels with K1 <= K2,
\* find_permutation never fails its assertion and returns a sequence of
\* length K2 that holds every index 0..K2-1 exactly once and whose first
\* K1 entries maximise the total overlap sum_i overlap[i, perm[i]] over
\* all one-to-one assignments of the K1 labels.
C20_PermutationOfBestOverlap ==
    (/\ Len(pmZ1) = Len(pmZ2)
     /\ pmPc \notin {"idle", "start"}
     /\ StatesOf(pmZ1, pmK1) <= StatesOf(pmZ2, pmK2)) =>
        /\ pmPc # "raised"
        /\ pmRows = StatesOf(pmZ1, pmK1) /\ pmCols = StatesOf(pmZ2, pmK2)
        /\ pmPc = "done" =>
              /\ Len(pmPerm) = pmCols
              /\ \A j \in 0..(pmCols - 1) :
                    Cardinality({n \in 1..pmCols : pmPerm[n] = j}) = 1
              /\ \A f \in [1..pmRows -> 0..(pmCols - 1)] :
                    (\A a, b \in 1..pmRows : a # b => f[a] # f[b]) =>
                        C20_Overlap(pmPerm, pmRows) >= C20_Overlap(f, pmRows)

\* with as many labels on one side as on the other the call returns a
\* permutation of the labels with the largest total overlap
C20_EqualNumbersOfStates ==
    (pmPc \notin {"idle", "start", "assign"} /\ Len(pmZ1) = Len(pmZ2)
     /\ pmRows = pmCols) =>
        /\ pmPc = "done"
        /\ Len(pmPerm) = pmCols
        /\ \A j \in 0..(pmCols - 1) :
              Cardinality({n \in 1..pmCols : pmPerm[n] = j}) = 1
        /\ \A f \in [1..pmRows -> 0..(pmCols - 1)] :
              (\A a, b \in 1..pmRows : a # b => f[a] # f[b]) =>
                  C20_Overlap(pmPerm, pmRows) >= C20_Overlap(f, pmRows)

====
